---- MODULE Spec2Model ----
(***************************************************************************)
(* opusdir: transcode a directory tree from FLAC to Opus.                  *)
(*                                                                         *)
(* A string of the program (a path, a file name) is modelled as a record   *)
(*   [dir |-> <<directory components>>, name |-> <<tokens of the last      *)
(*            component: its stem followed by its dot-extensions>>]        *)
(* so that "d/A/foo.opus.partial" is                                       *)
(*   [dir |-> <<"d","A">>, name |-> <<"foo",".opus",".partial">>].         *)
(* A directory path and the empty string have name = <<>>.                 *)
(***************************************************************************)
EXTENDS Integers, Sequences, FiniteSets, TLC

VARIABLES
    args,        \* parsed command line: source roots, dest, delete, workers
    files,       \* the file system's regular files: path -> [mtime, data]
    dirs,        \* the file system's directories (set of paths)
    pc,          \* position of the main thread
    dirset,      \* main's dirset: relative directory -> list of source roots
    ignored,     \* main's list of directories present in several sources
    actions,     \* main's global action list
    idx,         \* index of the loop main is in
    q,           \* queue.Queue: the items (actions or None) waiting
    unfinished,  \* queue.Queue.unfinished_tasks
    wk,          \* the worker threads: position and current action
    testcase,    \* arguments of the sync_dirs call made by test_sync_dirs
    lastsync,    \* the latest sync_dirs call: arguments and result
    hist         \* what the run has done so far (observation only)

vars == <<args, files, dirs, pc, dirset, ignored, actions, idx, q, unfinished,
          wk, testcase, lastsync, hist>>

----------------------------------------------------------------------------
(* Bounds of the model *)

\* modification times of pre-existing files are drawn from 1..MaxMtime
MaxMtime == 2
\* the largest worker count (-w) tried
MaxWorkers == 2
\* the largest number of files in a listing handed to sync_dirs by the test
MaxListing == 2
\* the largest number of files in the source trees at the start of a run
MaxSrcFiles == 2
\* the largest number of files in the destination tree at the start of a run
MaxDestFiles == 2

----------------------------------------------------------------------------
(* Strings *)

Str(d, n) == [dir |-> d, name |-> n]
EmptyStr == Str(<<>>, <<>>)
Dot == Str(<<>>, <<>>)
Name(n) == Str(<<>>, n)
Dir(d) == Str(d, <<>>)

\* tokens in the order Python compares the strings they stand for
Alphabet == <<".flac", ".jpg", ".mp3", ".opus", ".partial", ".png", ".txt",
              "A", "B", "X", "Y", "a", "b", "bar", "cover", "d", "foo",
              "notes", "old", "s1", "s2">>

Rank(t) == CHOOSE i \in 1..Len(Alphabet) : Alphabet[i] = t

RECURSIVE SeqLess(_, _)
SeqLess(a, b) ==
    IF b = <<>> THEN FALSE
    ELSE IF a = <<>> THEN TRUE
    ELSE IF Head(a) = Head(b) THEN SeqLess(Tail(a), Tail(b))
    ELSE Rank(Head(a)) < Rank(Head(b))

StrLess(s, t) ==
    IF s.dir = t.dir THEN SeqLess(s.name, t.name)
    ELSE SeqLess(s.dir, t.dir)

endswith(s, suffix) ==
    LET n == s.name
    IN  /\ Len(n) >= Len(suffix)
        /\ SubSeq(n, Len(n) - Len(suffix) + 1, Len(n)) = suffix

startswith(s, prefix) ==
    /\ Len(s.dir) >= Len(prefix.dir)
    /\ SubSeq(s.dir, 1, Len(prefix.dir)) = prefix.dir

\* path + ext
plus(s, ext) == [s EXCEPT !.name = @ \o ext]

MapSeq(s, Op(_)) == [i \in 1..Len(s) |-> Op(s[i])]

Range(s) == {s[i] : i \in DOMAIN s}

----------------------------------------------------------------------------
(* Module constants *)

num_workers_default == 2
cover_names == <<Name(<<"cover", ".jpg">>), Name(<<"cover", ".png">>)>>

----------------------------------------------------------------------------
(* Path helpers *)

joinpath(a, b) == Str(a.dir \o b.dir, b.name)

replace_ext(path, old, new) ==
    IF endswith(path, old)
    THEN [path EXCEPT !.name = SubSeq(@, 1, Len(@) - Len(old)) \o new]
    ELSE plus(path, new)

\* the path is known to start with old (main asserts it)
replacepath(path, old, new) ==
    IF path = old THEN new
    ELSE joinpath(new, Str(SubSeq(path.dir, Len(old.dir) + 1, Len(path.dir)),
                           path.name))

basename(path) == Name(path.name)
dirname(path) == Dir(path.dir)
parent(d) == Dir(SubSeq(d.dir, 1, Len(d.dir) - 1))

----------------------------------------------------------------------------
(* Actions of the plan *)

Action(kind, filepath, destpath) ==
    [action |-> kind, filepath |-> filepath, destpath |-> destpath]

transcode(filepath, destpath) == Action("transcode", filepath, destpath)
copy(filepath, destpath) == Action("copy", filepath, destpath)
mkdir(path) == Action("mkdir", EmptyStr, path)
remove(path) == Action("remove", EmptyStr, path)
rmdir(path) == Action("rmdir", EmptyStr, path)

File(path, name, mtime) == [path |-> path, name |-> name, mtime |-> mtime]

----------------------------------------------------------------------------
(* The directory reconciler *)

\* mutant: nothing is spared
can_delete_anything(filename) == TRUE

\* mutant: unfinished encodes are not recognised
can_delete_finished(filename) ==
    \/ endswith(filename, <<".opus">>)
    \/ filename \in Range(cover_names)

can_delete(filename) ==
    \/ endswith(filename, <<".opus", ".partial">>)
    \/ endswith(filename, <<".opus">>)
    \/ filename \in Range(cover_names)

\* mutant: a destination of the same age counts as out of date
is_stale_or_equal(destmtime, srcmtime) == destmtime <= srcmtime

\* the freshness test of sync_dirs: the file is planned when the destination
\* has no file of that name or an older one
is_stale(destmtime, srcmtime) == destmtime < srcmtime

\* mutant: the clean-up pass ignores the option
cleanup_always(delete) == TRUE

\* whether sync_dirs runs its clean-up pass
cleanup_enabled(delete) == delete

\* the cover names sync_dirs tries, in order
cover_candidates(srcnames) ==
    SelectSeq(cover_names, LAMBDA n : n \in srcnames)

\* mutant: the loop over cover_names lacks its break
every_cover(srcnames) == cover_candidates(srcnames)

\* the cover file sync_dirs settles on: the first candidate present
chosen_cover(srcnames) ==
    LET c == cover_candidates(srcnames)
    IN  IF c = <<>> THEN <<>> ELSE <<c[1]>>

\* mutant: the directory is dropped whenever nothing is created in it
rmdir_when_unused(acts, destset) == destset = {}

\* "if actions and not destset": something is deleted, nothing is created
rmdir_wanted(acts, destset) == acts # <<>> /\ destset = {}

sync_dirs(srcdir, destdir, srcfiles, destfiles, delete) ==
    LET lookup(fs, n) ==
            fs[CHOOSE i \in DOMAIN fs :
                  /\ fs[i].name = n
                  /\ \A j \in DOMAIN fs : j > i => fs[j].name # n]
        srcnames == {srcfiles[i].name : i \in DOMAIN srcfiles}
        destnames == {destfiles[i].name : i \in DOMAIN destfiles}
        needed(file, n) ==
            \/ n \notin destnames
            \/ is_stale(lookup(destfiles, n).mtime, file.mtime)
        destname(file) == replace_ext(file.name, <<".flac">>, <<".opus">>)
        flacs == SelectSeq(srcfiles, LAMBDA f : endswith(f.path, <<".flac">>))
        transcodes ==
            MapSeq(SelectSeq(flacs, LAMBDA f : needed(f, destname(f))),
                   LAMBDA f : transcode(f.path, joinpath(destdir, destname(f))))
        covers == MapSeq(chosen_cover(srcnames), LAMBDA n : lookup(srcfiles, n))
        copies ==
            MapSeq(SelectSeq(covers, LAMBDA f : needed(f, f.name)),
                   LAMBDA f : copy(f.path, joinpath(destdir, f.name)))
        destset == {destname(flacs[i]) : i \in DOMAIN flacs}
                   \cup {covers[i].name : i \in DOMAIN covers}
        removes ==
            IF cleanup_enabled(delete)
            THEN MapSeq(SelectSeq(destfiles,
                                  LAMBDA f : f.name \notin destset
                                             /\ can_delete(f.name)),
                        LAMBDA f : remove(f.path))
            ELSE <<>>
        acts == transcodes \o copies \o removes
    IN  IF cleanup_enabled(delete) /\ rmdir_wanted(acts, destset)
        THEN Append(acts, rmdir(destdir))
        ELSE acts

----------------------------------------------------------------------------
(* The file system as the program reads it *)

\* the time stamp of a file written during the run
Now == MaxMtime + 1

RECURSIVE SortStrs(_)
SortStrs(S) ==
    IF S = {} THEN <<>>
    ELSE LET m == CHOOSE x \in S : \A y \in S \ {x} : StrLess(x, y)
         IN  <<m>> \o SortStrs(S \ {m})

\* mutant: os.path.isfile in the place of os.path.exists
exists_file_only(path) == path \in DOMAIN files

exists(path) == path \in dirs \/ path \in DOMAIN files

\* the regular files directly inside path, sorted by name
get_files(path) ==
    IF path \notin dirs THEN <<>>
    ELSE MapSeq(SortStrs({basename(p) : p \in {f \in DOMAIN files : dirname(f) = path}}),
                LAMBDA n : File(joinpath(path, n), n, files[joinpath(path, n)].mtime))

\* os.walk(top): top and every directory below it, top-down, children sorted
walk(top) ==
    IF top \notin dirs THEN <<>>
    ELSE SortStrs({d \in dirs : startswith(d, top)})

should_exclude(dir, excludes) == dir \in excludes

should_include(dir, fileseq) ==
    \E i \in DOMAIN fileseq : endswith(fileseq[i].name, <<".flac">>)

\* the directories os.walk(sourceroot) yields that main does not prune
walked(sourceroot) ==
    SelectSeq(walk(sourceroot),
              LAMBDA d : \A k \in Len(sourceroot.dir)..Len(d.dir) :
                            ~should_exclude(Dir(SubSeq(d.dir, 1, k)), args.exclude))

\* step 1 of main: relative directory -> the source roots that hold it
build_dirset ==
    LET found(root) ==
            {replacepath(d, root, Dot) :
                d \in {e \in Range(walked(root)) : should_include(e, get_files(e))}}
        keys == UNION {found(args.source[i]) : i \in DOMAIN args.source}
    IN  [dn \in keys |-> SelectSeq(args.source, LAMBDA r : dn \in found(r))]

\* step 1b of main: a directory found under several roots is skipped
is_duplicate(roots) == Len(roots) > 1

\* step 1b of main: the directory set without the skipped directories
without_duplicates(all) ==
    [dn \in {k \in DOMAIN all : ~is_duplicate(all[k])} |-> all[dn]]

sourceset == SortStrs(DOMAIN dirset)

----------------------------------------------------------------------------
(* Initial states *)

S1 == Dir(<<"s1">>)
S2 == Dir(<<"s2">>)
D == Dir(<<"d">>)

foo_flac == <<"foo", ".flac">>
bar_flac == <<"bar", ".flac">>
foo_mp3 == <<"foo", ".mp3">>
foo_opus == <<"foo", ".opus">>
old_opus == <<"old", ".opus">>
foo_partial == <<"foo", ".opus", ".partial">>
cover_jpg == <<"cover", ".jpg">>
cover_png == <<"cover", ".png">>
notes_txt == <<"notes", ".txt">>

\* the source files a run may start with
SrcCandidates ==
    { Str(<<"s1", "A">>, foo_flac), Str(<<"s1", "A">>, bar_flac),
      Str(<<"s1", "A">>, cover_jpg), Str(<<"s2", "A">>, foo_flac),
      Str(<<"s1", "A", "B">>, foo_flac) }

\* the destination files a run may start with
DestCandidates ==
    { Str(<<"d", "A">>, foo_opus), Str(<<"d", "A">>, foo_partial),
      Str(<<"d", "A">>, cover_jpg), Str(<<"d", "A">>, notes_txt),
      Str(<<"d", "X">>, old_opus), Str(<<"d", "X", "Y">>, old_opus) }

\* destination directories that may exist although they hold no file
DirCandidates == { Dir(<<"d", "A">>) }

ancestors(path) == {Dir(SubSeq(path.dir, 1, k)) : k \in 1..Len(path.dir)}

NoAction == Action("none", EmptyStr, EmptyStr)
None == Action("None", EmptyStr, EmptyStr)

NoCall == [called |-> FALSE, srcdir |-> EmptyStr, destdir |-> EmptyStr,
           srcfiles |-> <<>>, destfiles |-> <<>>, delete |-> FALSE,
           result |-> <<>>]

NoHist == [files0 |-> {}, dirs0 |-> {}, removed |-> {}, rmdirs |-> {},
           put |-> {}, begun |-> {}, ok |-> {}, failed |-> {},
           spawnfail |-> {}, copyfail |-> {}, mkdirfail |-> {}]

\* file contents: "source" (a source file), "prior" (left by an earlier run
\* that completed it), "partial" (an encoder's unfinished output), "encoded"
\* (an encoder's output after exit status 0), "copied"
prior_data(path) ==
    IF endswith(path, <<".partial">>) THEN "partial" ELSE "prior"

\* the destination files whose age sync_dirs may compare with a source's
compared(path) == ~endswith(path, <<".partial">>) /\ ~endswith(path, <<".txt">>)
                  /\ path.dir = <<"d", "A">>

MainInit ==
    \E S \in SUBSET SrcCandidates, T \in SUBSET DestCandidates,
       E \in SUBSET DirCandidates, del \in BOOLEAN, w \in 1..MaxWorkers :
      /\ \/ Cardinality(S) \in 1..MaxSrcFiles
         \* one more source file than that for a single worker and a fresh
         \* destination: a plan of more than 2 * workers transcodes
         \/ Cardinality(S) = MaxSrcFiles + 1 /\ T = {} /\ E = {} /\ w = 1
      /\ Cardinality(T) <= MaxDestFiles
      /\ \E mt \in [T -> 1..MaxMtime] :
         /\ \A p \in T : ~compared(p) => mt[p] = 1
         /\ files = [p \in S \cup T |->
                       IF p \in S THEN [mtime |-> MaxMtime, data |-> "source"]
                       ELSE [mtime |-> mt[p], data |-> prior_data(p)]]
      /\ dirs = {S1, S2, D} \cup E \cup UNION {ancestors(p) : p \in S \cup T}
      /\ args = [source |-> <<S1, S2>>, dest |-> D, delete |-> del,
                 workers |-> w, exclude |-> {}]
      /\ pc = "scan"
      /\ dirset = <<>>
      /\ ignored = <<>>
      /\ actions = <<>>
      /\ idx = 0
      /\ q = <<>>
      /\ unfinished = 0
      /\ wk = [i \in 1..w |-> [pc |-> "new", action |-> NoAction, rc |-> 0]]
      /\ testcase = NoCall
      /\ lastsync = NoCall
      /\ hist = [NoHist EXCEPT !.files0 = T, !.dirs0 = dirs]

\* the listings test_sync_dirs hands to sync_dirs: files of directory dir
\* with distinct names, in any order
Listings(dir, names) ==
    UNION { { MapSeq(s, LAMBDA x : File(joinpath(dir, x[1]), x[1], x[2])) :
                s \in {t \in [1..k -> names \X (1..MaxMtime)] :
                          \A i, j \in 1..k : i # j => t[i][1] # t[j][1]} } :
            k \in 0..MaxListing }

TestSrcNames == {Name(foo_flac), Name(bar_flac), Name(cover_jpg),
                 Name(cover_png), Name(foo_mp3)}
TestDestNames == {Name(foo_opus), Name(foo_partial), Name(cover_jpg),
                  Name(cover_png), Name(notes_txt)}

TestInit ==
    \E src \in Listings(Dir(<<"a">>), TestSrcNames),
       dst \in Listings(Dir(<<"b">>), TestDestNames), del \in BOOLEAN :
      /\ testcase = [called |-> FALSE, srcdir |-> Dir(<<"a">>),
                     destdir |-> Dir(<<"b">>), srcfiles |-> src,
                     destfiles |-> dst, delete |-> del, result |-> <<>>]
      /\ pc = "test"
      /\ files = <<>>
      /\ dirs = {}
      /\ args = [source |-> <<>>, dest |-> EmptyStr, delete |-> FALSE,
                 workers |-> num_workers_default, exclude |-> {}]
      /\ dirset = <<>>
      /\ ignored = <<>>
      /\ actions = <<>>
      /\ idx = 0
      /\ q = <<>>
      /\ unfinished = 0
      /\ wk = <<>>
      /\ lastsync = NoCall
      /\ hist = NoHist

Init == TestInit \/ MainInit

----------------------------------------------------------------------------
(* The unit test's call of sync_dirs *)

call(srcdir, destdir, srcfiles, destfiles, delete) ==
    [called |-> TRUE, srcdir |-> srcdir, destdir |-> destdir,
     srcfiles |-> srcfiles, destfiles |-> destfiles, delete |-> delete,
     result |-> sync_dirs(srcdir, destdir, srcfiles, destfiles, delete)]

test_sync_dirs ==
    /\ pc = "test"
    /\ lastsync' = call(testcase.srcdir, testcase.destdir, testcase.srcfiles,
                        testcase.destfiles, testcase.delete)
    /\ pc' = "tested"
    /\ UNCHANGED <<args, files, dirs, dirset, ignored, actions, idx, q,
                   unfinished, wk, testcase, hist>>

----------------------------------------------------------------------------
(* main: building the plan *)

\* steps 1 and 1b
BuildSourceSet ==
    /\ pc = "scan"
    /\ LET all == build_dirset
           dup == {dn \in DOMAIN all : is_duplicate(all[dn])}
       IN  /\ ignored' = SortStrs(dup)
           /\ dirset' = without_duplicates(all)
    /\ pc' = "mkdirs"
    /\ UNCHANGED <<args, files, dirs, actions, idx, q, unfinished, wk,
                   testcase, lastsync, hist>>

after_sync == IF args.delete /\ walk(args.dest) # <<>> THEN "walk" ELSE "start"

\* the mkdir actions of step 2, for the source set ss
mkdir_actions(ss) ==
    MapSeq(SelectSeq(ss, LAMBDA dir : ~exists(joinpath(args.dest, dir))),
           LAMBDA dir : mkdir(joinpath(args.dest, dir)))

\* the call of sync_dirs step 3 makes for the directory dn found under root
sync_call(dn, root) ==
    LET sourcedir == joinpath(root[1], dn)
        destdir == joinpath(args.dest, dn)
    IN  call(sourcedir, destdir, get_files(sourcedir), get_files(destdir),
             args.delete)

\* the call of sync_dirs step 4 makes for a directory outside the source set
walk_call(destdir) ==
    call(destdir, destdir, <<>>, get_files(destdir), args.delete)

\* mutant: the sub-plan goes in front of the actions collected so far
extend_front(acts, subactions) == subactions \o acts

\* "actions += subactions"
extend(acts, subactions) == acts \o subactions

RECURSIVE Concat(_)
Concat(seqs) == IF seqs = <<>> THEN <<>> ELSE Head(seqs) \o Concat(Tail(seqs))

\* steps 2 to 4 of main as one function of the directory set ds and of the
\* file system: the plan a run computes
main_plan(ds) ==
    LET ss == SortStrs(DOMAIN ds)
        tree == walk(args.dest)
        outside == SelectSeq(tree,
                     LAMBDA d : replacepath(d, args.dest, Dot) \notin DOMAIN ds)
    IN  mkdir_actions(ss)
        \o Concat([i \in DOMAIN ss |-> sync_call(ss[i], ds[ss[i]]).result])
        \o (IF args.delete
            THEN Concat([i \in DOMAIN outside |-> walk_call(outside[i]).result])
            ELSE <<>>)

\* step 2
EmitMkdirs ==
    /\ pc = "mkdirs"
    /\ actions' = mkdir_actions(sourceset)
    /\ pc' = IF sourceset # <<>> THEN "sync" ELSE after_sync
    /\ idx' = 1
    /\ UNCHANGED <<args, files, dirs, dirset, ignored, q, unfinished, wk,
                   testcase, lastsync, hist>>

\* step 3, one directory of the source set
SyncDir ==
    /\ pc = "sync"
    /\ LET dn == sourceset[idx]
           c == sync_call(dn, dirset[dn])
       IN  /\ lastsync' = c
           /\ actions' = extend(actions, c.result)
    /\ IF idx < Len(sourceset)
       THEN idx' = idx + 1 /\ pc' = pc
       ELSE idx' = 1 /\ pc' = after_sync
    /\ UNCHANGED <<args, files, dirs, dirset, ignored, q, unfinished, wk,
                   testcase, hist>>

\* step 4, one directory of the walk of the destination
DeleteWalk ==
    /\ pc = "walk"
    /\ LET destdir == walk(args.dest)[idx]
           dn == replacepath(destdir, args.dest, Dot)
           c == walk_call(destdir)
       IN  IF dn \notin DOMAIN dirset
           THEN lastsync' = c /\ actions' = extend(actions, c.result)
           ELSE UNCHANGED <<lastsync, actions>>
    /\ IF idx < Len(walk(args.dest))
       THEN idx' = idx + 1 /\ pc' = pc
       ELSE idx' = 1 /\ pc' = "start"
    /\ UNCHANGED <<args, files, dirs, dirset, ignored, q, unfinished, wk,
                   testcase, hist>>

Plan == BuildSourceSet \/ EmitMkdirs \/ SyncDir \/ DeleteWalk

----------------------------------------------------------------------------
(* main: doing the actions *)

note(field, x) == [hist EXCEPT ![field] = @ \cup {x}]

StartWorkers ==
    /\ pc = "start"
    /\ wk' = [w \in 1..args.workers |-> [wk[w] EXCEPT !.pc = "get"]]
    /\ pc' = IF actions # <<>> THEN "loop" ELSE "join"
    /\ idx' = 1
    /\ UNCHANGED <<args, files, dirs, dirset, ignored, actions, q, unfinished,
                   testcase, lastsync, hist>>

\* the for loop over actions moves on
advance ==
    IF idx < Len(actions)
    THEN idx' = idx + 1 /\ pc' = "loop"
    ELSE idx' = 1 /\ pc' = "join"

\* mutant: queue.Queue() without a size, which never blocks a put
maxsize_unbounded == Len(actions) + args.workers + 1

\* queue.Queue(args.workers): the number of items the queue holds at most
maxsize == args.workers

\* q.put(action): blocks while the queue is full
PutTranscode ==
    /\ pc = "loop"
    /\ actions[idx].action = "transcode"
    /\ Len(q) < maxsize
    /\ q' = Append(q, actions[idx])
    /\ unfinished' = unfinished + 1
    /\ hist' = note("put", actions[idx])
    /\ advance
    /\ UNCHANGED <<args, files, dirs, dirset, ignored, actions, wk, testcase,
                   lastsync>>

\* the directories domkdir finds missing, outermost first
RECURSIVE missing_dirs(_, _)
missing_dirs(path, root) ==
    IF path = root \/ exists(path) \/ path.dir = <<>> THEN <<>>
    ELSE Append(missing_dirs(parent(path), root), path)

\* domkdir: os.mkdir of each missing directory in turn; the first failure
\* other than "already exists" ends the loop
DoMkdir ==
    /\ pc = "loop"
    /\ actions[idx].action = "mkdir"
    /\ LET todo == missing_dirs(actions[idx].destpath, args.dest)
       IN  \E k \in 0..Len(todo) :
              /\ k > 0 => parent(todo[1]) \in dirs
              /\ dirs' = dirs \cup {todo[i] : i \in 1..k}
              /\ hist' = IF k < Len(todo)
                         THEN note("mkdirfail", actions[idx])
                         ELSE hist
    /\ advance
    /\ UNCHANGED <<args, files, dirset, ignored, actions, q, unfinished, wk,
                   testcase, lastsync>>

\* whether shutil.copy can succeed
can_copy(action) ==
    /\ action.filepath \in DOMAIN files
    /\ dirname(action.destpath) \in dirs
    /\ action.destpath \notin dirs

\* what main does when doaction raises in the loop: nothing catches it, the
\* main thread ends
on_copy_error == "raised"

\* shutil.copy(action.filepath, action.destpath)
DoCopy ==
    /\ pc = "loop"
    /\ actions[idx].action = "copy"
    /\ \/ /\ can_copy(actions[idx])
          /\ files' = [p \in DOMAIN files \cup {actions[idx].destpath} |->
                         IF p = actions[idx].destpath
                         THEN [mtime |-> Now, data |-> "copied"]
                         ELSE files[p]]
          /\ hist' = note("ok", actions[idx])
          /\ advance
       \/ /\ hist' = note("copyfail", actions[idx])
          /\ IF on_copy_error = "raised"
             THEN pc' = "raised" /\ idx' = idx
             ELSE advance
          /\ UNCHANGED files
    /\ UNCHANGED <<args, dirs, dirset, ignored, actions, q, unfinished, wk,
                   testcase, lastsync>>

without(path) == [p \in DOMAIN files \ {path} |-> files[p]]

\* doremove: a missing file is passed over, any other error is printed
\* (the file system of the model refuses no removal of a file that exists)
DoRemove ==
    /\ pc = "loop"
    /\ actions[idx].action = "remove"
    /\ IF actions[idx].destpath \in DOMAIN files
       THEN /\ files' = without(actions[idx].destpath)
            /\ hist' = note("removed", actions[idx].destpath)
       ELSE UNCHANGED <<files, hist>>
    /\ advance
    /\ UNCHANGED <<args, dirs, dirset, ignored, actions, q, unfinished, wk,
                   testcase, lastsync>>

is_empty(d) ==
    /\ \A p \in DOMAIN files : dirname(p) # d
    /\ \A e \in dirs : e = d \/ e.dir = <<>> \/ parent(e) # d

\* dormdir: a missing directory is passed over, any other error (in the
\* model: the directory is not empty) is printed
DoRmdir ==
    /\ pc = "loop"
    /\ actions[idx].action = "rmdir"
    /\ IF actions[idx].destpath \in dirs /\ is_empty(actions[idx].destpath)
       THEN /\ dirs' = dirs \ {actions[idx].destpath}
            /\ hist' = note("rmdirs", actions[idx].destpath)
       ELSE UNCHANGED <<dirs, hist>>
    /\ advance
    /\ UNCHANGED <<args, files, dirset, ignored, actions, q, unfinished, wk,
                   testcase, lastsync>>

\* q.join(): blocks until every item put has been marked done
JoinQueue ==
    /\ pc = "join"
    /\ unfinished = 0
    /\ pc' = "stop"
    /\ idx' = 1
    /\ UNCHANGED <<args, files, dirs, dirset, ignored, actions, q, unfinished,
                   wk, testcase, lastsync, hist>>

\* q.put(None), once per worker
StopWorker ==
    /\ pc = "stop"
    /\ Len(q) < maxsize
    /\ q' = Append(q, None)
    /\ unfinished' = unfinished + 1
    /\ IF idx < args.workers
       THEN idx' = idx + 1 /\ pc' = pc
       ELSE idx' = 1 /\ pc' = "jointhreads"
    /\ UNCHANGED <<args, files, dirs, dirset, ignored, actions, wk, testcase,
                   lastsync, hist>>

\* t.join(), once per worker
JoinThread ==
    /\ pc = "jointhreads"
    /\ wk[idx].pc \in {"exited", "dead"}
    /\ IF idx < args.workers
       THEN idx' = idx + 1 /\ pc' = pc
       ELSE idx' = 1 /\ pc' = "done"
    /\ UNCHANGED <<args, files, dirs, dirset, ignored, actions, q, unfinished,
                   wk, testcase, lastsync, hist>>

Execute ==
    \/ StartWorkers \/ PutTranscode \/ DoMkdir \/ DoCopy \/ DoRemove
    \/ DoRmdir \/ JoinQueue \/ StopWorker \/ JoinThread

----------------------------------------------------------------------------
(* The worker threads *)

\* mutant: the encoder writes straight to the destination path
tmppath_in_place(action) == action.destpath

\* mutant: one temporary file name for every transcode into a directory
tmppath_shared(action) ==
    joinpath(dirname(action.destpath), Name(<<"old", ".opus", ".partial">>))

tmppath(action) == plus(action.destpath, <<".partial">>)

\* action = queue.get(): blocks while the queue is empty
WorkerGet(w) ==
    /\ wk[w].pc = "get"
    /\ q # <<>>
    /\ q' = Tail(q)
    /\ IF Head(q) = None
       THEN wk' = [wk EXCEPT ![w].pc = "exited"] /\ hist' = hist
       ELSE /\ wk' = [wk EXCEPT ![w] = [pc |-> "spawn", action |-> Head(q),
                                        rc |-> 0]]
            /\ hist' = note("begun", Head(q))
    /\ UNCHANGED <<args, files, dirs, pc, dirset, ignored, actions, idx,
                   unfinished, testcase, lastsync>>

\* what becomes of the worker when subprocess.Popen raises: nothing catches
\* it, the thread ends without task_done
on_spawn_error == "dead"

\* dotranscode up to subprocess.Popen; the encoder, once started, opens its
\* output file tmppath or gives up
Spawn(w) ==
    /\ wk[w].pc = "spawn"
    /\ LET tmp == tmppath(wk[w].action)
       IN  \/ /\ dirname(tmp) \in dirs
              /\ tmp \notin dirs
              /\ files' = [p \in DOMAIN files \cup {tmp} |->
                             IF p = tmp THEN [mtime |-> Now, data |-> "partial"]
                             ELSE files[p]]
              /\ wk' = [wk EXCEPT ![w].pc = "writing"]
              /\ UNCHANGED <<hist, unfinished>>
           \/ /\ wk' = [wk EXCEPT ![w].pc = "finish", ![w].rc = 1]
              /\ UNCHANGED <<files, hist, unfinished>>
           \/ /\ hist' = note("spawnfail", wk[w].action)
              /\ IF on_spawn_error = "dead"
                 THEN /\ wk' = [wk EXCEPT ![w].pc = "dead"]
                      /\ UNCHANGED unfinished
                 ELSE /\ wk' = [wk EXCEPT ![w].pc = "get"]
                      /\ unfinished' = unfinished - 1
              /\ UNCHANGED files
    /\ UNCHANGED <<args, dirs, pc, dirset, ignored, actions, idx, q,
                   testcase, lastsync>>

\* the encoder exits, with status 0 once its output is complete
EncoderExit(w) ==
    /\ wk[w].pc = "writing"
    /\ LET tmp == tmppath(wk[w].action)
       IN  \/ /\ files' = IF tmp \in DOMAIN files
                          THEN [files EXCEPT ![tmp].data = "encoded"]
                          ELSE files
              /\ wk' = [wk EXCEPT ![w].pc = "finish", ![w].rc = 0]
           \/ /\ wk' = [wk EXCEPT ![w].pc = "finish", ![w].rc = 1]
              /\ UNCHANGED files
    /\ UNCHANGED <<args, dirs, pc, dirset, ignored, actions, idx, q,
                   unfinished, testcase, lastsync, hist>>

\* whether os.replace(tmppath, destpath) can succeed
can_replace(action) ==
    /\ tmppath(action) \in DOMAIN files
    /\ dirname(action.destpath) \in dirs
    /\ action.destpath \notin dirs

\* the rest of dotranscode, and the worker's task_done
Finish(w) ==
    /\ wk[w].pc = "finish"
    /\ LET a == wk[w].action
       IN  \/ /\ wk[w].rc = 0
              /\ can_replace(a)
              /\ files' = [p \in (DOMAIN files \ {tmppath(a)}) \cup {a.destpath} |->
                             IF p = a.destpath THEN files[tmppath(a)]
                             ELSE files[p]]
              /\ hist' = note("ok", a)
           \/ /\ hist' = note("failed", a)
              /\ UNCHANGED files
    /\ unfinished' = unfinished - 1
    /\ wk' = [wk EXCEPT ![w].pc = "get"]
    /\ UNCHANGED <<args, dirs, pc, dirset, ignored, actions, idx, q,
                   testcase, lastsync>>

worker(w) ==
    WorkerGet(w) \/ Spawn(w) \/ EncoderExit(w) \/ Finish(w)

Workers == \E w \in DOMAIN wk : worker(w)

MainNext == Plan \/ Execute \/ Workers

Next == test_sync_dirs \/ MainNext

Spec == Init /\ [][Next]_vars

----------------------------------------------------------------------------
(* Vocabulary of the properties *)

InRun == pc \notin {"test", "tested"}
Planned == pc \in {"start", "loop", "join", "stop", "jointhreads", "done", "raised"}

Last(n) == IF n = <<>> THEN "" ELSE n[Len(n)]
IsFlacName(f) == Last(f.name) = ".flac"
\* foo.flac -> foo.opus
OpusNameOf(f) == Name(SubSeq(f.name, 1, Len(f.name) - 1) \o <<".opus">>)
IsCoverName(f) == f = Name(cover_jpg) \/ f = Name(cover_png)
\* the deletion-safety predicate, on a file name
SelfProduced(f) ==
    \/ Last(f.name) = ".opus"
    \/ Len(f.name) >= 2 /\ Last(f.name) = ".partial"
       /\ f.name[Len(f.name) - 1] = ".opus"
    \/ IsCoverName(f)

Kinds(acts, K) == {k \in DOMAIN acts : acts[k].action \in K}
NamesOf(listing) == {listing[i].name : i \in DOMAIN listing}
\* the file of that name in a listing (names are unique in a listing)
FileNamed(listing, n) == listing[CHOOSE i \in DOMAIN listing : listing[i].name = n]
\* the cover file sync_dirs is to copy: cover.jpg, else cover.png
SelectedCover(listing) ==
    IF Name(cover_jpg) \in NamesOf(listing) THEN {Name(cover_jpg)}
    ELSE IF Name(cover_png) \in NamesOf(listing) THEN {Name(cover_png)}
    ELSE {}
\* the destination has no file of that name, or a strictly older one
AbsentOrOlder(listing, n, mtime) ==
    n \notin NamesOf(listing) \/ FileNamed(listing, n).mtime < mtime

----------------------------------------------------------------------------
(* C1: sync_dirs plans the transcode of a .flac source file, and the copy of
   the selected cover file, if and only if the destination listing has no
   file of the target name or that file's mtime is strictly less than the
   source file's; equal mtimes plan nothing. *)
C1_Freshness ==
    lastsync.called =>
      LET c == lastsync
      IN  \A i \in DOMAIN c.srcfiles :
            LET f == c.srcfiles[i]
            IN  /\ IsFlacName(f.name) =>
                     ( (transcode(f.path, joinpath(c.destdir, OpusNameOf(f.name)))
                            \in Range(c.result))
                       <=> AbsentOrOlder(c.destfiles, OpusNameOf(f.name), f.mtime) )
                /\ f.name \in SelectedCover(c.srcfiles) =>
                     ( (copy(f.path, joinpath(c.destdir, f.name))
                            \in Range(c.result))
                       <=> AbsentOrOlder(c.destfiles, f.name, f.mtime) )

\* a .flac whose destination file has the same mtime, and nothing planned
C1_Witness ==
    /\ lastsync.called
    /\ \E i \in DOMAIN lastsync.srcfiles :
          LET f == lastsync.srcfiles[i]
          IN  /\ IsFlacName(f.name)
              /\ OpusNameOf(f.name) \in NamesOf(lastsync.destfiles)
              /\ FileNamed(lastsync.destfiles, OpusNameOf(f.name)).mtime = f.mtime
              /\ Kinds(lastsync.result, {"transcode"}) = {}

(* C2: with delete=True sync_dirs never plans a remove for a destination
   file whose name is not '*.opus', '*.opus.partial' or a cover name, and
   over a whole run no file with such a name is removed from the destination
   tree: each one that was there at the start is still there, unchanged. *)
C2_DeletionSafety ==
    /\ lastsync.called /\ lastsync.delete =>
         \A k \in Kinds(lastsync.result, {"remove"}) :
            SelfProduced(basename(lastsync.result[k].destpath))
    /\ InRun =>
         /\ \A p \in hist.removed : SelfProduced(basename(p))
         /\ \A p \in hist.files0 :
               ~SelfProduced(basename(p)) =>
                  p \in DOMAIN files /\ files[p].data = "prior"

\* a delete-mode run has removed a file from a directory and left the
\* foreign file beside it
C2_Witness ==
    /\ pc = "done" /\ args.delete
    /\ \E p \in hist.removed, r \in hist.files0 :
          /\ dirname(p) = dirname(r)
          /\ ~SelfProduced(basename(r))
          /\ r \in DOMAIN files

(* C3: at every step of a run (so also in the state a kill leaves behind) a
   file under a transcode action's final destination path is either the one
   an earlier run left there or the complete output of an encoder that
   exited with status 0 and was then renamed into place; unfinished or
   failed encoder output is only ever found under a '.partial' name. *)
C3_CrashSafety ==
    InRun =>
      /\ \A k \in Kinds(actions, {"transcode"}) :
            LET a == actions[k]
            IN  a.destpath \in DOMAIN files =>
                  \/ /\ files[a.destpath].data = "prior"
                     /\ a.destpath \in hist.files0
                  \/ /\ files[a.destpath].data = "encoded"
                     /\ a \in hist.ok
      /\ \A p \in DOMAIN files :
            files[p].data = "partial" => Last(p.name) = ".partial"

\* an encode failed or its rename failed: its output lies under the
\* '.partial' name and the final name holds nothing
C3_Witness ==
    /\ InRun
    /\ \E k \in Kinds(actions, {"transcode"}) :
          /\ actions[k] \in hist.failed
          /\ plus(actions[k].destpath, <<".partial">>) \in DOMAIN files
          /\ actions[k].destpath \notin DOMAIN files

(* C4: with delete=True, an empty source listing and a non-empty destination
   listing whose names all satisfy the deletion-safety predicate, sync_dirs
   returns one remove per destination file, in listing order, followed by
   one rmdir of the destination directory. *)
C4_DirectoryEmptying ==
    ( /\ lastsync.called /\ lastsync.delete
      /\ lastsync.srcfiles = <<>>
      /\ lastsync.destfiles # <<>>
      /\ \A i \in DOMAIN lastsync.destfiles :
            SelfProduced(lastsync.destfiles[i].name) )
    => /\ Len(lastsync.result) = Len(lastsync.destfiles) + 1
       /\ \A i \in DOMAIN lastsync.destfiles :
             lastsync.result[i] = remove(lastsync.destfiles[i].path)
       /\ lastsync.result[Len(lastsync.result)] = rmdir(lastsync.destdir)

\* two files, one of them an unfinished encode, and the directory go
C4_Witness ==
    /\ lastsync.called /\ lastsync.delete
    /\ lastsync.srcfiles = <<>>
    /\ Len(lastsync.destfiles) >= 2
    /\ \A i \in DOMAIN lastsync.destfiles :
          SelfProduced(lastsync.destfiles[i].name)
    /\ \E i \in DOMAIN lastsync.destfiles :
          Last(lastsync.destfiles[i].name.name) = ".partial"
    /\ Kinds(lastsync.result, {"rmdir"}) # {}

\* the '.partial' file a transcode of the plan writes to and renames
TakenOver(p) ==
    \E k \in Kinds(actions, {"transcode"}) :
       p = plus(actions[k].destpath, <<".partial">>)

(* C5: with delete=False sync_dirs returns no remove and no rmdir action,
   and a run without the delete option removes no file and no directory:
   nothing is unlinked, and every directory and file the destination tree
   held at the start is still there (a '.partial' file that a transcode of
   the run writes to is renamed to its final name, not removed). *)
C5_NoDeletionWhenDisabled ==
    /\ lastsync.called /\ ~lastsync.delete =>
         Kinds(lastsync.result, {"remove", "rmdir"}) = {}
    /\ InRun /\ ~args.delete =>
         /\ Kinds(actions, {"remove", "rmdir"}) = {}
         /\ hist.removed = {} /\ hist.rmdirs = {}
         /\ hist.dirs0 \subseteq dirs
         /\ \A p \in hist.files0 : p \in DOMAIN files \/ TakenOver(p)

\* a finished run without the option, with removable files left where they
\* were
C5_Witness ==
    /\ pc = "done" /\ ~args.delete
    /\ \E p \in hist.files0 :
          /\ SelfProduced(basename(p))
          /\ dirname(p) \notin {joinpath(args.dest, dn) : dn \in DOMAIN dirset}
          /\ p \in DOMAIN files
    /\ hist.ok # {}

(* C6 as claimed: a source listing with both cover.jpg and cover.png yields
   exactly one copy action, for cover.jpg. *)
C6_AsClaimed ==
    lastsync.called /\ {Name(cover_jpg), Name(cover_png)} \subseteq NamesOf(lastsync.srcfiles)
    => /\ Cardinality(Kinds(lastsync.result, {"copy"})) = 1
       /\ \A k \in Kinds(lastsync.result, {"copy"}) :
             basename(lastsync.result[k].destpath) = Name(cover_jpg)

(* C6: no sync_dirs call plans more than one copy action; when the source
   listing holds both cover.jpg and cover.png a planned copy is the one of
   cover.jpg, and exactly one copy is planned when the destination has no
   cover.jpg or an older one (none when it is up to date). *)
C6_CoverPriority ==
    lastsync.called =>
      /\ Cardinality(Kinds(lastsync.result, {"copy"})) <= 1
      /\ {Name(cover_jpg), Name(cover_png)} \subseteq NamesOf(lastsync.srcfiles) =>
           /\ \A k \in Kinds(lastsync.result, {"copy"}) :
                 /\ basename(lastsync.result[k].destpath) = Name(cover_jpg)
                 /\ basename(lastsync.result[k].filepath) = Name(cover_jpg)
           /\ Cardinality(Kinds(lastsync.result, {"copy"})) = 1
              <=> AbsentOrOlder(lastsync.destfiles, Name(cover_jpg),
                                FileNamed(lastsync.srcfiles, Name(cover_jpg)).mtime)

\* both covers in the source, a stale cover.png in the destination: the one
\* copy is cover.jpg
C6_Witness ==
    /\ lastsync.called
    /\ {Name(cover_jpg), Name(cover_png)} \subseteq NamesOf(lastsync.srcfiles)
    /\ Name(cover_png) \in NamesOf(lastsync.destfiles)
    /\ Cardinality(Kinds(lastsync.result, {"copy"})) = 1

\* the source file a destination file corresponds to, if the listing has it
SourceOf(listing, d) ==
    {i \in DOMAIN listing :
        \/ IsFlacName(listing[i].name) /\ OpusNameOf(listing[i].name) = d.name
        \/ listing[i].name \in SelectedCover(listing) /\ listing[i].name = d.name}

(* C7 as claimed: when every destination file is at least as new as its
   corresponding source file, sync_dirs plans no transcode and no copy. *)
C7_AsClaimed ==
    ( /\ lastsync.called
      /\ \A j \in DOMAIN lastsync.destfiles :
            \A i \in SourceOf(lastsync.srcfiles, lastsync.destfiles[j]) :
               lastsync.destfiles[j].mtime >= lastsync.srcfiles[i].mtime )
    => Kinds(lastsync.result, {"transcode", "copy"}) = {}

(* C7: when every .flac source file and the selected cover file has its
   corresponding file in the destination listing, with an mtime >= its own,
   sync_dirs plans no transcode and no copy. *)
C7_Idempotence ==
    ( /\ lastsync.called
      /\ \A i \in DOMAIN lastsync.srcfiles :
            LET f == lastsync.srcfiles[i]
                target == IF IsFlacName(f.name) THEN OpusNameOf(f.name) ELSE f.name
            IN  IsFlacName(f.name) \/ f.name \in SelectedCover(lastsync.srcfiles)
                => /\ target \in NamesOf(lastsync.destfiles)
                   /\ FileNamed(lastsync.destfiles, target).mtime >= f.mtime )
    => Kinds(lastsync.result, {"transcode", "copy"}) = {}

\* a track and a cover, both with a destination of the same age
C7_Witness ==
    /\ lastsync.called
    /\ \E i, j \in DOMAIN lastsync.srcfiles :
          /\ IsFlacName(lastsync.srcfiles[i].name)
          /\ IsCoverName(lastsync.srcfiles[j].name)
    /\ \A i \in DOMAIN lastsync.srcfiles :
          LET f == lastsync.srcfiles[i]
              target == IF IsFlacName(f.name) THEN OpusNameOf(f.name) ELSE f.name
          IN  /\ target \in NamesOf(lastsync.destfiles)
              /\ FileNamed(lastsync.destfiles, target).mtime = f.mtime
    /\ Kinds(lastsync.result, {"transcode", "copy"}) = {}

\* the destination path is that directory or a file directly inside it
Touches(a, d) == a.destpath = d \/ (a.destpath.name # <<>> /\ dirname(a.destpath) = d)

(* C8: a relative directory found under more than one source root is left
   out of the run: once the plan is built, with or without the delete
   option, it holds no action whose destination path is that directory
   under the destination root or a file directly inside it. *)
C8_AmbiguousExcluded ==
    InRun /\ Planned =>
      \A i \in DOMAIN ignored, k \in DOMAIN actions :
         ~Touches(actions[k], joinpath(args.dest, ignored[i]))

\* some transcode of the run has failed: its encoder exited non-zero, or its
\* rename failed, or the encoder could not be spawned
TranscodeFailed == hist.failed # {} \/ hist.spawnfail # {}

(* C9: a failed transcode (encoder exit status non-zero, or the encoder
   could not be spawned) is abandoned alone: the run is never stuck before
   its end because of it, and at its end every transcode of the plan has
   been picked up by a worker. *)
C9_TranscodeFailureIsolated ==
    InRun /\ TranscodeFailed /\ hist.copyfail = {} =>
      /\ pc = "done" \/ ENABLED MainNext
      /\ pc = "done" =>
           \A k \in Kinds(actions, {"transcode"}) : actions[k] \in hist.begun

(* C10: a failed copy is not fatal: the main thread goes on with the later
   actions of the plan, and the run is never stuck before its end because
   of it. *)
C10_CopyFailureNonFatal ==
    InRun /\ hist.copyfail # {} /\ hist.spawnfail = {} =>
      /\ pc # "raised"
      /\ pc = "done" \/ ENABLED MainNext

----------------------------------------------------------------------------
\* transcodes and copies the run has attempted: put on the queue, picked up
\* by a worker, or executed by the main thread
Attempted == hist.put \cup hist.begun \cup hist.ok \cup hist.copyfail

(* C11: a failed directory creation fences its subtree: once a mkdir action
   has failed for a reason other than "already exists", no transcode or copy
   whose destination lies in that directory or below it is put on the queue
   or executed in the rest of the run. *)
C11_MkdirFailureFences ==
    InRun =>
      \A m \in hist.mkdirfail, x \in Attempted :
         ~startswith(x.destpath, m.destpath)

\* the run is over and every action of its plan has had its effect
AllActionsSucceeded ==
    /\ pc = "done"
    /\ hist.failed = {} /\ hist.spawnfail = {}
    /\ hist.copyfail = {} /\ hist.mkdirfail = {}
    /\ \A k \in DOMAIN actions :
          LET a == actions[k]
          IN  /\ a.action \in {"transcode", "copy"} => a \in hist.ok
              /\ a.action = "mkdir" => a.destpath \in dirs
              /\ a.action = "remove" => a.destpath \notin DOMAIN files
              /\ a.action = "rmdir" => a.destpath \notin dirs

\* the files the destination held below d before the run
InitialFilesBelow(d) == {p \in hist.files0 : startswith(p, d)}

\* a directory of the destination tree, not its root, with no directory of
\* the source set at or below it, that before the run held at least one file
\* (directly or in subdirectories) and only deletion-safe ones
WasDisposable(d) ==
    /\ d \in hist.dirs0
    /\ d # args.dest /\ startswith(d, args.dest)
    /\ \A dn \in DOMAIN dirset : ~startswith(joinpath(args.dest, dn), d)
    /\ InitialFilesBelow(d) # {}
    /\ \A p \in InitialFilesBelow(d) : SelfProduced(basename(p))

(* C12: delete mode removes emptied directories: after a run with the
   delete option in which every action succeeds, no directory is left in the
   destination tree that is outside the source set and that before the run
   held only deletion-safe files, directly or in subdirectories. *)
C12_EmptiedDirectoriesRemoved ==
    InRun /\ args.delete /\ AllActionsSucceeded =>
      \A d \in hist.dirs0 : WasDisposable(d) => d \notin dirs

\* the main thread is done with the action at position k of the plan
Executed(k) ==
    \/ pc \in {"join", "stop", "jointhreads", "done"}
    \/ pc \in {"loop", "raised"} /\ k < idx

(* C13: directory creation happens before content: in the plan every mkdir
   action precedes every transcode, copy, remove and rmdir action, and the
   main thread is done with the mkdir of a directory that needs creating
   before a transcode into that directory is put on the queue or picked up
   by a worker and before a copy into it is executed. *)
C13_MkdirBeforeContent ==
    InRun =>
      /\ \A i \in Kinds(actions, {"mkdir"}),
            j \in Kinds(actions, {"transcode", "copy", "remove", "rmdir"}) :
            i < j
      /\ \A x \in Attempted :
            dirname(x.destpath) \notin hist.dirs0 =>
              \E k \in Kinds(actions, {"mkdir"}) :
                 actions[k].destpath = dirname(x.destpath) /\ Executed(k)

\* a worker has picked up a transcode into a directory the run has created,
\* and the plan holds further actions after its mkdir actions
C13_Witness ==
    /\ InRun
    /\ \E x \in hist.begun :
          dirname(x.destpath) \notin hist.dirs0 /\ dirname(x.destpath) \in dirs
    /\ Kinds(actions, {"remove", "rmdir"}) # {}

\* the shutdown has begun: a None is on the queue or a worker has consumed one
ShutdownBegun == None \in Range(q) \/ \E w \in DOMAIN wk : wk[w].pc = "exited"

\* the None items sent so far: those on the queue and those consumed
NonesSent ==
    Cardinality({i \in DOMAIN q : q[i] = None})
    + Cardinality({w \in DOMAIN wk : wk[w].pc = "exited"})

(* C14: drain before shutdown: when every encoder invocation returns, with a
   zero or a non-zero exit status, no None is put on the queue while a
   transcode the main thread has issued is still queued or being executed; at
   most one None per worker is sent; the run is never stuck before its end,
   and at its end every worker has consumed exactly one None and has exited
   and the queue is empty. *)
C14_DrainBeforeShutdown ==
    InRun /\ hist.spawnfail = {} =>
      /\ ShutdownBegun => hist.put \subseteq hist.ok \cup hist.failed
      /\ NonesSent <= args.workers
      /\ Planned => pc = "done" \/ ENABLED MainNext
      /\ pc = "done" =>
           /\ q = <<>>
           /\ \A w \in DOMAIN wk : wk[w].pc = "exited"

\* the workers whose encoder invocation is under way
InFlight == {w \in DOMAIN wk : wk[w].pc \in {"spawn", "writing", "finish"}}

\* the transcodes the main thread has put on the queue and no worker has
\* finished with
Ahead == hist.put \ (hist.ok \cup hist.failed)

\* the main thread is at a q.put of a transcode and the queue is full
PutOnFullQueue ==
    /\ pc = "loop"
    /\ actions[idx].action = "transcode"
    /\ Len(q) = args.workers

(* C15: backpressure: in every state of a run with W workers the queue holds
   at most W items and at most W encoder invocations are under way, so the
   main thread is never more than 2 * W transcodes ahead of the completed
   ones; a put on a queue that holds W items cannot proceed. *)
C15_Backpressure ==
    InRun =>
      /\ Len(q) <= args.workers
      /\ Cardinality(InFlight) <= args.workers
      /\ Cardinality(Ahead) <= 2 * args.workers
      /\ PutOnFullQueue => ~ENABLED PutTranscode

\* the plan holds more than 2 * W transcodes, 2 * W of them are issued and
\* not completed, and the main thread waits at the put of the next one
C15_Witness ==
    /\ InRun
    /\ Cardinality(Kinds(actions, {"transcode"})) > 2 * args.workers
    /\ Cardinality(Ahead) = 2 * args.workers
    /\ Cardinality(InFlight) = args.workers
    /\ PutOnFullQueue

(* C16: whenever the action list sync_dirs returns holds an rmdir action:
   delete was true, the list holds at least one remove action and no
   transcode or copy action, the source listing has no .flac file and no
   cover file (the destination set is empty), and the list holds exactly one
   rmdir action, for the destination directory, as its last element. *)
C16_RmdirPlanning ==
    lastsync.called =>
      LET r == lastsync.result
      IN  Kinds(r, {"rmdir"}) # {} =>
            /\ lastsync.delete
            /\ Kinds(r, {"remove"}) # {}
            /\ Kinds(r, {"transcode", "copy"}) = {}
            /\ \A i \in DOMAIN lastsync.srcfiles :
                  /\ ~IsFlacName(lastsync.srcfiles[i].name)
                  /\ ~IsCoverName(lastsync.srcfiles[i].name)
            /\ Kinds(r, {"rmdir"}) = {Len(r)}
            /\ r[Len(r)] = rmdir(lastsync.destdir)

\* an rmdir is planned for a directory whose source has files, none of them
\* a .flac or a cover, and whose destination keeps a file
C16_Witness ==
    /\ lastsync.called
    /\ lastsync.srcfiles # <<>>
    /\ Kinds(lastsync.result, {"rmdir"}) # {}
    /\ Len(lastsync.destfiles) > Cardinality(Kinds(lastsync.result, {"remove"}))

\* the path lies strictly inside the directory d
Inside(path, d) == startswith(path, d) /\ path # d

(* C17: removal ordering in the plan of a run with the delete option: the
   rmdir of a destination directory comes only after every remove and every
   rmdir whose target lies inside that directory, subdirectories included. *)
C17_RemovalOrder ==
    InRun /\ Planned /\ args.delete =>
      \A i \in Kinds(actions, {"rmdir"}), j \in Kinds(actions, {"remove", "rmdir"}) :
         Inside(actions[j].destpath, actions[i].destpath) => j < i

(* C18: path disjointness in the plan of a run: the destination path of a
   transcode is the destination path of no other action of the plan, and no
   two transcodes have the same temporary path. *)
C18_PathDisjointness ==
    InRun /\ Planned =>
      \A i \in Kinds(actions, {"transcode"}), j \in DOMAIN actions :
         i # j =>
           /\ actions[i].destpath # actions[j].destpath
           /\ actions[j].action = "transcode" =>
                tmppath(actions[i]) # tmppath(actions[j])

\* a plan with two transcodes into one directory and a remove in that same
\* directory
C18_Witness ==
    /\ InRun /\ Planned
    /\ \E i, j \in Kinds(actions, {"transcode"}), k \in Kinds(actions, {"remove"}) :
          /\ i # j
          /\ dirname(actions[i].destpath) = dirname(actions[j].destpath)
          /\ dirname(actions[k].destpath) = dirname(actions[i].destpath)

(* C19: no action the main thread executes inline races with the temporary
   file of a transcode a worker has in hand: while the encoder is writing,
   and once it has exited with status zero until the worker renames its
   output, the '.partial' file of that transcode is there; so the rename of a
   transcode whose encoder exits zero finds its file. *)
C19_NoRaceOnTempFile ==
    InRun =>
      \A w \in DOMAIN wk :
         wk[w].pc = "writing" \/ (wk[w].pc = "finish" /\ wk[w].rc = 0) =>
           tmppath(wk[w].action) \in DOMAIN files

\* the plan a run started in the current state computes
NextPlan == main_plan(without_duplicates(build_dirset))

(* C20: a completed run is a fixpoint: when a run has ended and every
   action of its plan has succeeded (the files it wrote are stamped with the
   time of the run, not older than any source file, and the source trees are
   as they were), the plan of a run started right then with the same
   arguments is empty, with or without the delete option and whatever the
   interleaving of the workers was. *)
C20_Fixpoint ==
    InRun /\ AllActionsSucceeded => NextPlan = <<>>

\* a run with the delete option that created a directory, transcoded into
\* it, removed a file and removed a directory has ended with all of it done
C20_Witness ==
    /\ InRun /\ AllActionsSucceeded /\ args.delete
    /\ \A kind \in {"mkdir", "transcode", "remove", "rmdir"} :
          Kinds(actions, {kind}) # {}

====
